---- MODULE Spec2Model ----
(***************************************************************************)
(* Smart Event Manager (src/event-system.cpp): the EventManager store, its *)
(* validation helpers and its add / edit / delete / import operations.     *)
(* Strings are sequences of one-character strings, so that validation,     *)
(* case folding and parsing are computed character by character as the     *)
(* code computes them.                                                     *)
(***************************************************************************)
EXTENDS Integers, Sequences, FiniteSets, TLC

VARIABLES
    events,      \* std::vector<Event> events
    nextId,      \* int nextId
    terminated,  \* TRUE once an uncaught exception has ended the process
    usedIds,     \* history: every id some live event has held so far
    op,          \* the operation that ran last
    call,        \* history: its arguments when it was addEvent, <<>> otherwise
    ret,         \* its return value (void operations: TRUE when they committed)
    status,      \* the message it printed about its outcome
    shown,       \* the slots or events it listed, <<>> when it lists none
    snapshot,    \* history: the lines last exported and the store they show
    imported,    \* history: TRUE once an import has replaced the store
    attendeeEmails,  \* std::vector<std::string> attendeeEmails
    isAdmin,     \* static bool isAdmin
    pc           \* where main is: "start", "menu" or "exit"

vars == <<events, nextId, terminated, usedIds, op, call, ret, status, shown,
          snapshot, imported, attendeeEmails, isAdmin, pc>>

----------------------------------------------------------------------------
\* Bounds of the model

MaxEvents == 2
MaxNextId == 4
MaxLines == 2

----------------------------------------------------------------------------
\* Characters and strings

Digits == <<"0", "1", "2", "3", "4", "5", "6", "7", "8", "9">>
UpperCase == <<"A", "B", "C", "D", "E", "F", "G", "H", "I", "J", "K", "L", "M",
               "N", "O", "P", "Q", "R", "S", "T", "U", "V", "W", "X", "Y", "Z">>
LowerCase == <<"a", "b", "c", "d", "e", "f", "g", "h", "i", "j", "k", "l", "m",
               "n", "o", "p", "q", "r", "s", "t", "u", "v", "w", "x", "y", "z">>

\* c - '0' for each digit character, and the lower-case letter of each
\* upper-case one
DigitValue == [c \in {Digits[i] : i \in 1..10} |->
                  (CHOOSE i \in 1..10 : Digits[i] = c) - 1]
LowerOf == [c \in {UpperCase[i] : i \in 1..26} |->
               LowerCase[CHOOSE i \in 1..26 : UpperCase[i] = c]]

isdigit(c) == c \in DOMAIN DigitValue

DigitVal(c) == DigitValue[c]

tolower(c) == IF c \in DOMAIN LowerOf THEN LowerOf[c] ELSE c

toLower(s) == [i \in 1..Len(s) |-> tolower(s[i])]

iequals(a, b) == toLower(a) = toLower(b)

\* s.substr(pos, n), pos counted from 0
substr(s, pos, n) == SubSeq(s, pos + 1, pos + n)

\* std::stoi on a string of decimal digits
RECURSIVE DecimalValue(_)
DecimalValue(s) ==
    IF Len(s) = 0 THEN 0
    ELSE 10 * DecimalValue(SubSeq(s, 1, Len(s) - 1)) + DigitVal(s[Len(s)])

----------------------------------------------------------------------------
\* Validation

isLeap_everyFourth(y) == y % 4 = 0

isLeap(y) == (y % 4 = 0 /\ y % 100 # 0) \/ (y % 400 = 0)

mdays(mon, yr) ==
    IF mon = 2 /\ isLeap(yr) THEN 29
    ELSE <<31, 28, 31, 30, 31, 30, 31, 31, 30, 31, 30, 31>>[mon]

isValidDate(d) ==
    /\ Len(d) = 10
    /\ d[3] = "-"
    /\ d[6] = "-"
    /\ \A i \in {1, 2, 4, 5, 7, 8, 9, 10} : isdigit(d[i])
    /\ LET day == DecimalValue(substr(d, 0, 2))
           mon == DecimalValue(substr(d, 3, 2))
           yr  == DecimalValue(substr(d, 6, 4))
       IN /\ ~(yr < 1900 \/ yr > 3000)
          /\ ~(mon < 1 \/ mon > 12)
          /\ day >= 1
          /\ day <= mdays(mon, yr)

isValidTime(t) ==
    /\ Len(t) = 5
    /\ t[3] = ":"
    /\ isdigit(t[1]) /\ isdigit(t[2]) /\ isdigit(t[4]) /\ isdigit(t[5])
    /\ LET h == DigitVal(t[1]) * 10 + DigitVal(t[2])
           m == DigitVal(t[4]) * 10 + DigitVal(t[5])
       IN /\ ~(h < 0 \/ h > 23)
          /\ ~(m < 0 \/ m > 59)

toMinutes(t) ==
    DigitVal(t[1]) * 600 + DigitVal(t[2]) * 60 + DigitVal(t[4]) * 10 + DigitVal(t[5])

conflicts_startOnly(a, b) ==
    IF a.date # b.date THEN FALSE
    ELSE LET s1 == toMinutes(a.time)
             s2 == toMinutes(b.time)
         IN s1 = s2

conflicts_inclusive(a, b) ==
    IF a.date # b.date THEN FALSE
    ELSE LET s1 == toMinutes(a.time)
             e1 == s1 + 60
             s2 == toMinutes(b.time)
             e2 == s2 + 60
         IN s1 <= e2 /\ s2 <= e1

conflicts_withinWindowOfB(a, b) ==
    IF a.date # b.date THEN FALSE
    ELSE LET s1 == toMinutes(a.time)
             s2 == toMinutes(b.time)
             e2 == s2 + 60
         IN s2 <= s1 /\ s1 < e2

conflicts(a, b) ==
    IF a.date # b.date THEN FALSE
    ELSE LET s1 == toMinutes(a.time)
             e1 == s1 + 60
             s2 == toMinutes(b.time)
             e2 == s2 + 60
         IN s1 < e2 /\ s2 < e1

----------------------------------------------------------------------------
\* Input values

Str_A == <<"A">>
Str_a == <<"a">>
Str_T == <<"T">>
Str_L == <<"L">>
Blank == <<>>

Date_01_01_2030 == <<"0", "1", "-", "0", "1", "-", "2", "0", "3", "0">>
Date_02_01_2030 == <<"0", "2", "-", "0", "1", "-", "2", "0", "3", "0">>
Date_31_04_2030 == <<"3", "1", "-", "0", "4", "-", "2", "0", "3", "0">>

Time_09_00 == <<"0", "9", ":", "0", "0">>
Time_09_30 == <<"0", "9", ":", "3", "0">>
Time_10_00 == <<"1", "0", ":", "0", "0">>
Time_24_00 == <<"2", "4", ":", "0", "0">>

Names == {Str_A, Str_a, Blank}
Dates == {Date_01_01_2030, Date_02_01_2030, Date_31_04_2030}
Times == {Time_09_00, Time_09_30, Time_10_00, Time_24_00}

----------------------------------------------------------------------------
\* Core operations

Event(id, name, date, time, type, location) ==
    [id |-> id, name |-> name, date |-> date, time |-> time,
     type |-> type, location |-> location]

isDuplicate(name, date, time) ==
    \E i \in 1..Len(events) :
        /\ iequals(events[i].name, name)
        /\ events[i].date = date
        /\ events[i].time = time

Init ==
    /\ events = <<>>
    /\ nextId = 1
    /\ terminated = FALSE
    /\ usedIds = {}
    /\ op = "none"
    /\ call = <<>>
    /\ ret = TRUE
    /\ status = ""
    /\ shown = <<>>
    /\ snapshot = [lines |-> <<>>, store |-> <<>>]
    /\ imported = FALSE
    /\ attendeeEmails = <<>>
    /\ isAdmin = FALSE
    /\ pc = "start"

\* addEvent, lines 148-150: the checks made before an id is taken
addValidate_conflictFirst(name, date, time) ==
    IF ~isValidDate(date) THEN "Invalid date. Use DD-MM-YYYY."
    ELSE IF ~isValidTime(time) THEN "Invalid time. Use HH:MM (24h)."
    ELSE IF \E i \in 1..Len(events) :
                conflicts([date |-> date, time |-> time], events[i])
         THEN "Conflict with Event ID"
    ELSE IF isDuplicate(name, date, time) THEN "Duplicate event exists."
    ELSE "ok"

addValidate(name, date, time) ==
    IF ~isValidDate(date) THEN "Invalid date. Use DD-MM-YYYY."
    ELSE IF ~isValidTime(time) THEN "Invalid time. Use HH:MM (24h)."
    ELSE IF isDuplicate(name, date, time) THEN "Duplicate event exists."
    ELSE "ok"

\* addEvent, lines 152-153: the conflict loop, then push_back
addCommit_pushFirst(e) ==
    IF \E i \in 1..Len(events) : conflicts(e, events[i])
    THEN [events |-> Append(events, e), ret |-> FALSE,
          status |-> "Conflict with Event ID"]
    ELSE [events |-> Append(events, e), ret |-> TRUE,
          status |-> "Event added with ID"]

addCommit(e) ==
    IF \E i \in 1..Len(events) : conflicts(e, events[i])
    THEN [events |-> events, ret |-> FALSE, status |-> "Conflict with Event ID"]
    ELSE [events |-> Append(events, e), ret |-> TRUE,
          status |-> "Event added with ID"]

IdsOf(evs) == {evs[i].id : i \in 1..Len(evs)}

addEvent(name, date, time, type, location) ==
    /\ ~terminated
    /\ op' = "addEvent"
    /\ terminated' = terminated
    /\ \E v \in {addValidate(name, date, time)} :
          IF v # "ok"
          THEN /\ status' = v
               /\ ret' = FALSE
               /\ UNCHANGED <<events, nextId>>
          ELSE \E r \in {addCommit(Event(nextId, name, date, time, type, location))} :
                  /\ nextId' = nextId + 1
                  /\ events' = r.events
                  /\ ret' = r.ret
                  /\ status' = r.status

\* std::find_if(events.begin(), events.end(), e.id == id): 0 stands for end()
find_if(evs, id) ==
    IF \E i \in 1..Len(evs) : evs[i].id = id
    THEN CHOOSE i \in 1..Len(evs) :
            /\ evs[i].id = id
            /\ \A j \in 1..(i - 1) : evs[j].id # id
    ELSE 0

\* editEventById, lines 163-167: a blank line keeps the current value
merge_replaceAll(e, in) ==
    [id |-> e.id, name |-> in.name, date |-> in.date, time |-> in.time,
     type |-> in.type, location |-> in.location]

merge(e, in) ==
    [id       |-> e.id,
     name     |-> IF in.name # <<>> THEN in.name ELSE e.name,
     date     |-> IF in.date # <<>> THEN in.date ELSE e.date,
     time     |-> IF in.time # <<>> THEN in.time ELSE e.time,
     type     |-> IF in.type # <<>> THEN in.type ELSE e.type,
     location |-> IF in.location # <<>> THEN in.location ELSE e.location]

\* e = backup, where e refers to events[i]
revert_none(evs, i, backup) == evs

revert(evs, i, backup) == [evs EXCEPT ![i] = backup]

\* editEventById on the store evs; the event is changed in place (cur) and
\* the checks run over the changed store
editResult_againstAll(evs, id, in) ==
    LET i == find_if(evs, id)
    IN IF i = 0
       THEN [events |-> evs, ret |-> FALSE, status |-> "Event not found."]
       ELSE LET backup == evs[i]
                e == merge(backup, in)
                cur == [evs EXCEPT ![i] = e]
            IN IF ~isValidDate(e.date) \/ ~isValidTime(e.time)
               THEN [events |-> revert(cur, i, backup), ret |-> FALSE,
                     status |-> "Invalid date/time. Reverting."]
               ELSE IF \E k \in 1..Len(cur) :
                           /\ iequals(cur[k].name, e.name)
                           /\ cur[k].date = e.date
                           /\ cur[k].time = e.time
               THEN [events |-> revert(cur, i, backup), ret |-> FALSE,
                     status |-> "Duplicate after edit. Reverting."]
               ELSE IF \E k \in 1..Len(cur) : conflicts(e, cur[k])
               THEN [events |-> revert(cur, i, backup), ret |-> FALSE,
                     status |-> "Conflict after edit. Reverting."]
               ELSE [events |-> cur, ret |-> TRUE, status |-> "Event updated."]

editResult(evs, id, in) ==
    LET i == find_if(evs, id)
    IN IF i = 0
       THEN [events |-> evs, ret |-> FALSE, status |-> "Event not found."]
       ELSE LET backup == evs[i]
                e == merge(backup, in)
                cur == [evs EXCEPT ![i] = e]
            IN IF ~isValidDate(e.date) \/ ~isValidTime(e.time)
               THEN [events |-> revert(cur, i, backup), ret |-> FALSE,
                     status |-> "Invalid date/time. Reverting."]
               ELSE IF \E k \in 1..Len(cur) :
                           /\ cur[k].id # e.id
                           /\ iequals(cur[k].name, e.name)
                           /\ cur[k].date = e.date
                           /\ cur[k].time = e.time
               THEN [events |-> revert(cur, i, backup), ret |-> FALSE,
                     status |-> "Duplicate after edit. Reverting."]
               ELSE IF \E k \in 1..Len(cur) :
                           cur[k].id # e.id /\ conflicts(e, cur[k])
               THEN [events |-> revert(cur, i, backup), ret |-> FALSE,
                     status |-> "Conflict after edit. Reverting."]
               ELSE [events |-> cur, ret |-> TRUE, status |-> "Event updated."]

editEventById(id, in) ==
    /\ ~terminated
    /\ op' = "editEventById"
    /\ \E r \in {editResult(events, id, in)} :
          /\ events' = r.events
          /\ ret' = r.ret
          /\ status' = r.status
    /\ UNCHANGED <<nextId, terminated>>

\* the events of a vector, as a set
Range(evs) == {evs[i] : i \in 1..Len(evs)}

\* events.erase(std::remove_if(..., pred), events.end()): the events that
\* do not satisfy pred (given as the set of events matching it), in their
\* order
erase_if_firstOnly(evs, matching) ==
    IF \E i \in 1..Len(evs) : evs[i] \in matching
    THEN LET i == CHOOSE i \in 1..Len(evs) :
                    evs[i] \in matching /\ \A j \in 1..(i - 1) : evs[j] \notin matching
         IN SubSeq(evs, 1, i - 1) \o SubSeq(evs, i + 1, Len(evs))
    ELSE evs

erase_if(evs, matching) == SelectSeq(evs, LAMBDA e : e \notin matching)

deleteById(id) ==
    /\ ~terminated
    /\ op' = "deleteById"
    /\ LET left == erase_if(events, {e \in Range(events) : e.id = id})
       IN /\ events' = left
          /\ IF Len(left) = Len(events)
             THEN ret' = FALSE /\ status' = "No event with that ID."
             ELSE ret' = TRUE /\ status' = "Deleted."
    /\ UNCHANGED <<nextId, terminated>>

deleteByName(name) ==
    /\ ~terminated
    /\ op' = "deleteByName"
    /\ LET left == erase_if(events, {e \in Range(events) : iequals(e.name, name)})
       IN /\ events' = left
          /\ IF Len(left) = Len(events)
             THEN ret' = FALSE /\ status' = "No event with that name."
             ELSE ret' = TRUE /\ status' = "Deleted."
    /\ UNCHANGED <<nextId, terminated>>

----------------------------------------------------------------------------
\* Listing

\* The character codes that order the strings compared below
CharCode(c) == IF isdigit(c) THEN 48 + DigitVal(c) ELSE IF c = "-" THEN 45 ELSE 58

\* a < b on std::string
StringLess(a, b) ==
    \E k \in 1..Len(b) :
        /\ k <= Len(a) + 1
        /\ SubSeq(a, 1, k - 1) = SubSeq(b, 1, k - 1)
        /\ k = Len(a) + 1 \/ CharCode(a[k]) < CharCode(b[k])

ymd_asWritten(d) == d

ymd(d) == substr(d, 6, 4) \o substr(d, 3, 2) \o substr(d, 0, 2)

\* listAll, line 201: the comparator given to std::sort
listBefore(a, b) ==
    IF a.date = b.date THEN toMinutes(a.time) < toMinutes(b.time)
    ELSE StringLess(ymd(a.date), ymd(b.date))

Perms(n) == {p \in [1..n -> 1..n] : \A i, j \in 1..n : i # j => p[i] # p[j]}

\* std::sort: some arrangement of the elements in which none comes before
\* one the comparator puts ahead of it; which one, among events the
\* comparator does not order, is not specified
sort(evs) ==
    {list \in {[i \in 1..Len(evs) |-> evs[p[i]]] : p \in Perms(Len(evs))} :
        \A i, j \in 1..Len(evs) : i < j => ~listBefore(list[j], list[i])}

listAll ==
    /\ ~terminated
    /\ op' = "listAll"
    /\ IF Len(events) = 0
       THEN shown' = <<>> /\ status' = "No events."
       ELSE shown' \in sort(events) /\ status' = "ID Name Date Time Type Location"
    /\ ret' = TRUE
    /\ UNCHANGED <<events, nextId, terminated>>

----------------------------------------------------------------------------
\* Suggestions

\* std::setw(2), std::setfill('0') on a number below 100
TwoDigits(n) == <<Digits[(n \div 10) + 1], Digits[(n % 10) + 1]>>

fromMinutes_noWrap(minutes) ==
    LET m0 == IF minutes < 0 THEN 0 ELSE minutes
        h == m0 \div 60
        m == m0 % 60
    IN TwoDigits(h % 100) \o <<":">> \o TwoDigits(m)

fromMinutes(minutes) ==
    LET m0 == IF minutes < 0 THEN 0 ELSE minutes
        m1 == m0 % (24 * 60)
        h == m1 \div 60
        m == m1 % 60
    IN TwoDigits(h) \o <<":">> \o TwoDigits(m)

occupied_halfHour(evs, date) ==
    LET on == SelectSeq(evs, LAMBDA e : e.date = date)
    IN [i \in 1..Len(on) |->
           [first |-> toMinutes(on[i].time), second |-> toMinutes(on[i].time) + 30]]

\* suggestSlots, line 252: the occupied interval of each event on the date.
\* The sort of line 253 is left out: occ is only searched for a clash.
occupied(evs, date) ==
    LET on == SelectSeq(evs, LAMBDA e : e.date = date)
    IN [i \in 1..Len(on) |->
           [first |-> toMinutes(on[i].time), second |-> toMinutes(on[i].time) + 60]]

clash_touching(occ, t, duration) ==
    \E i \in 1..Len(occ) : ~(t + duration < occ[i].first \/ t > occ[i].second)

clash(occ, t, duration) ==
    \E i \in 1..Len(occ) : ~(t + duration <= occ[i].first \/ t >= occ[i].second)

\* suggestSlots, line 255: the loop from candidate t on; out holds the lines
\* printed so far
RECURSIVE slotScan(_, _, _, _)
slotScan(occ, t, duration, out) ==
    IF ~(t + duration <= 20 * 60 /\ Len(out) < 5) THEN out
    ELSE IF clash(occ, t, duration) THEN slotScan(occ, t + 30, duration, out)
    ELSE slotScan(occ, t + 30, duration,
                  Append(out, [from |-> fromMinutes(t),
                               to |-> fromMinutes(t + duration)]))

suggestSlots(date, duration) ==
    /\ ~terminated
    /\ op' = "suggestSlots"
    /\ shown' = slotScan(occupied(events, date), 8 * 60, duration, <<>>)
    /\ status' = IF Len(shown') = 0
                 THEN "(No free 1-hour slots found in working window)"
                 ELSE "Suggested available slots"
    /\ ret' = TRUE
    /\ UNCHANGED <<events, nextId, terminated>>

\* What suggestSlots(date) prints for the store evs, the duration left at 60
suggested(evs, date) == slotScan(occupied(evs, date), 8 * 60, 60, <<>>)

\* addEvent, line 152: the slots printed when the add is rejected for
\* conflict, <<>> when it is not
addSlots(name, date, time) ==
    IF /\ addValidate(name, date, time) = "ok"
       /\ \E i \in 1..Len(events) :
             conflicts([date |-> date, time |-> time], events[i])
    THEN suggested(events, date)
    ELSE <<>>

\* editEventById, line 170: the slots printed when the edit is rejected for
\* conflict, <<>> when it is not; they are worked out before e = backup, on
\* the store that holds the event as edited
editSlots(evs, id, in) ==
    IF editResult(evs, id, in).status # "Conflict after edit. Reverting." THEN <<>>
    ELSE LET i == find_if(evs, id)
             e == merge(evs[i], in)
         IN suggested([evs EXCEPT ![i] = e], e.date)

----------------------------------------------------------------------------
\* Snapshot import

Comma == ","
isspace(c) == c \in {" ", "\t"}

\* s.find(sub) != std::string::npos
Contains(s, sub) ==
    \E k \in 0..(Len(s) - Len(sub)) : SubSeq(s, k + 1, k + Len(sub)) = sub

\* The tokens std::getline(ss, tok, ',') yields until the stream is exhausted
RECURSIVE Split(_)
Split(s) ==
    IF Len(s) = 0 THEN <<>>
    ELSE IF \E k \in 1..Len(s) : s[k] = Comma
    THEN LET k == CHOOSE k \in 1..Len(s) :
                    s[k] = Comma /\ \A j \in 1..(k - 1) : s[j] # Comma
         IN <<SubSeq(s, 1, k - 1)>> \o Split(SubSeq(s, k + 1, Len(s)))
    ELSE <<s>>

\* The longest prefix of s made of digits
RECURSIVE DigitPrefix(_)
DigitPrefix(s) ==
    IF Len(s) = 0 \/ ~isdigit(Head(s)) THEN <<>>
    ELSE <<Head(s)>> \o DigitPrefix(Tail(s))

RECURSIVE SkipSpace(_)
SkipSpace(s) ==
    IF Len(s) > 0 /\ isspace(Head(s)) THEN SkipSpace(Tail(s)) ELSE s

\* std::stoi: leading white space, an optional sign, then digits; it throws
\* std::invalid_argument when no digit follows
stoi(tok) ==
    LET s == SkipSpace(tok)
        neg == Len(s) > 0 /\ Head(s) = "-"
        body == IF Len(s) > 0 /\ Head(s) \in {"-", "+"} THEN Tail(s) ELSE s
        ds == DigitPrefix(body)
    IN IF Len(ds) = 0 THEN [threw |-> TRUE, val |-> 0]
       ELSE [threw |-> FALSE,
             val |-> IF neg THEN 0 - DecimalValue(ds) ELSE DecimalValue(ds)]

Header == <<"i", "d", ",", "n", "a", "m", "e", ",", "d", "a", "t", "e", ",",
            "t", "i", "m", "e", ",", "t", "y", "p", "e", ",",
            "l", "o", "c", "a", "t", "i", "o", "n">>

\* importSnapshotCSV, lines 275-286: the columns of one line; id is 0 and
\* the strings are empty where the line has no such column
parseRow(line) ==
    LET toks == Split(line)
        col(n) == IF Len(toks) >= n THEN toks[n] ELSE <<>>
        id == IF col(1) # <<>> THEN stoi(col(1)) ELSE [threw |-> FALSE, val |-> 0]
    IN [threw |-> id.threw,
        e |-> Event(id.val, col(2), col(3), col(4), col(5), col(6))]

\* The lines that can be pasted
CsvRow(id, name, date, time, type, location) ==
    id \o <<Comma>> \o name \o <<Comma>> \o date \o <<Comma>> \o time
       \o <<Comma>> \o type \o <<Comma>> \o location

Line_1_A_0900  == CsvRow(<<"1">>, Str_A, Date_01_01_2030, Time_09_00, Str_T, Str_L)
Line_2_a_0930  == CsvRow(<<"2">>, Str_a, Date_01_01_2030, Time_09_30, Str_T, Str_L)
Line_neg_A     == CsvRow(<<"-", "1">>, Str_A, Date_02_01_2030, Time_09_00, Str_T, Blank)
Line_0_A       == CsvRow(<<"0">>, Str_A, Date_01_01_2030, Time_10_00, Str_T, Str_L)
Line_x_A       == CsvRow(<<"x">>, Str_A, Date_01_01_2030, Time_10_00, Str_T, Str_L)
Line_3_baddate == CsvRow(<<"3">>, Str_A, Date_31_04_2030, Time_09_00, Str_T, Str_L)
Line_nocomma   == <<"1", " ", "A">>
Line_intmax    ==
    CsvRow(<<"2", "1", "4", "7", "4", "8", "3", "6", "4", "7">>, Str_A,
           Date_02_01_2030, Time_09_00, Str_T, Str_L)

\* operator<< on an int: its decimal digits, after a minus sign when negative
RECURSIVE to_string(_)
to_string(n) ==
    IF n < 0 THEN <<"-">> \o to_string(0 - n)
    ELSE IF n < 10 THEN <<Digits[n + 1]>>
    ELSE to_string(n \div 10) \o <<Digits[(n % 10) + 1]>>

\* exportSnapshotCSV, lines 261-264: the header, then one line per event
exportLines(evs) ==
    <<Header>> \o
    [i \in 1..Len(evs) |->
        CsvRow(to_string(evs[i].id), evs[i].name, evs[i].date, evs[i].time,
               evs[i].type, evs[i].location)]

exportSnapshotCSV ==
    /\ ~terminated
    /\ op' = "exportSnapshotCSV"
    /\ shown' = exportLines(events)
    /\ status' = "(Copy the above lines to save. Import with the menu option.)"
    /\ ret' = TRUE
    /\ UNCHANGED <<events, nextId, terminated>>

\* The lines an export can print in the runs that paste an export back
SnapshotLines ==
    {CsvRow(to_string(id), name, Date_01_01_2030, time, Str_T, Str_L) :
        id \in 1..MaxNextId, name \in {Str_A, Blank},
        time \in {Time_09_00, Time_10_00}}

ImportLines ==
    {Line_1_A_0900, Line_2_a_0930, Line_neg_A, Line_0_A, Line_x_A,
     Line_3_baddate, Line_nocomma, Line_intmax, Header} \cup SnapshotLines

\* What each line holds, worked out once per line
HasComma == [l \in ImportLines |-> Contains(l, <<Comma>>)]
IsHeader == [l \in ImportLines |-> Contains(toLower(l), Header)]
Parsed == [l \in ImportLines |-> parseRow(l)]

\* line 287: the row is kept unless one of these holds
rowKept(e) ==
    ~(e.id = 0 \/ e.name = <<>> \/ ~isValidDate(e.date) \/ ~isValidTime(e.time))

max(a, b) == IF a < b THEN b ELSE a

\* The largest and the smallest value of an int
INT_MAX == 2147483647
INT_MIN == (0 - INT_MAX) - 1

\* n + 1 on an int. At INT_MAX the addition overflows, which the language
\* leaves undefined: the build either wraps to INT_MIN or traps.
plusOne(n) ==
    IF n = INT_MAX
    THEN {[trapped |-> FALSE, val |-> INT_MIN], [trapped |-> TRUE, val |-> n]}
    ELSE {[trapped |-> FALSE, val |-> n + 1]}

\* importSnapshotCSV, lines 271-289: the loop over the pasted lines, from
\* line k on
RECURSIVE importScan(_, _, _, _, _)
importScan(lines, k, first, temp, maxId) ==
    IF k > Len(lines) THEN [threw |-> FALSE, temp |-> temp, maxId |-> maxId]
    ELSE IF ~HasComma[lines[k]] THEN importScan(lines, k + 1, first, temp, maxId)
    ELSE IF first /\ IsHeader[lines[k]]
    THEN importScan(lines, k + 1, FALSE, temp, maxId)
    ELSE LET row == Parsed[lines[k]]
         IN IF row.threw THEN [threw |-> TRUE, temp |-> temp, maxId |-> maxId]
            ELSE IF ~rowKept(row.e)
            THEN importScan(lines, k + 1, FALSE, temp, maxId)
            ELSE importScan(lines, k + 1, FALSE, Append(temp, row.e),
                            max(maxId, row.e.id))

importSnapshotCSV(lines) ==
    /\ ~terminated
    /\ op' = "importSnapshotCSV"
    /\ \E r \in {importScan(lines, 1, TRUE, <<>>, 0)} :
          IF r.threw
          THEN /\ terminated' = TRUE
               /\ ret' = FALSE
               /\ status' = "terminate called: std::invalid_argument"
               /\ UNCHANGED <<events, nextId>>
          ELSE IF Len(r.temp) = 0
          THEN /\ ret' = FALSE
               /\ status' = "Nothing imported."
               /\ UNCHANGED <<events, nextId, terminated>>
          ELSE \E next \in plusOne(r.maxId) :
                  /\ events' = r.temp
                  /\ IF next.trapped
                     THEN /\ terminated' = TRUE
                          /\ ret' = FALSE
                          /\ status' = "terminated: signed integer overflow"
                          /\ UNCHANGED nextId
                     ELSE /\ nextId' = next.val
                          /\ ret' = TRUE
                          /\ status' = "Imported"
                          /\ UNCHANGED terminated

\* What is pasted: up to MaxLines lines, ended by a blank line
PastedLines ==
    {Line_1_A_0900, Line_2_a_0930, Line_neg_A, Line_x_A, Line_3_baddate}
Pastes == UNION {[1..n -> PastedLines] : n \in 0..MaxLines}

----------------------------------------------------------------------------
\* Reminders

\* loadAttendeesFromPaste, lines 225-228: the lines read up to the first
\* empty one, or to the end of the input, each followed by a space
RECURSIVE joinUntilBlank(_)
joinUntilBlank(lines) ==
    IF Len(lines) = 0 \/ Len(lines[1]) = 0 THEN <<>>
    ELSE lines[1] \o <<" ">> \o joinUntilBlank(Tail(lines))

\* The tokens ss >> token yields until the stream is exhausted
RECURSIVE Words(_)
Words(s) ==
    IF Len(s) = 0 THEN <<>>
    ELSE IF isspace(s[1]) THEN Words(Tail(s))
    ELSE IF \E k \in 1..Len(s) : isspace(s[k])
    THEN LET k == CHOOSE k \in 1..Len(s) :
                    isspace(s[k]) /\ \A j \in 1..(k - 1) : ~isspace(s[j])
         IN <<SubSeq(s, 1, k - 1)>> \o Words(SubSeq(s, k, Len(s)))
    ELSE <<s>>

\* line 231: one trailing ',' or ';' is dropped
stripBack(token) ==
    IF token[Len(token)] \in {",", ";"} THEN SubSeq(token, 1, Len(token) - 1)
    ELSE token

\* line 230
isEmail(t) == Contains(t, <<"@">>) /\ Contains(t, <<".">>)

loadAttendeesFromPaste(lines) ==
    /\ ~terminated
    /\ op' = "loadAttendeesFromPaste"
    /\ attendeeEmails' =
          LET tokens == Words(joinUntilBlank(lines))
              bare == [i \in 1..Len(tokens) |-> stripBack(tokens[i])]
          IN SelectSeq(bare, isEmail)
    /\ status' = "Loaded attendee emails."
    /\ ret' = TRUE
    /\ UNCHANGED <<events, nextId, terminated>>

byTime_asStored(list) == {list}

\* std::sort with the comparator of line 239: some arrangement in which no
\* event comes before one that starts earlier
byTime(list) ==
    {l \in {[i \in 1..Len(list) |-> list[p[i]]] : p \in Perms(Len(list))} :
        \A i, j \in 1..Len(list) :
            i < j => ~(toMinutes(l[j].time) < toMinutes(l[i].time))}

Str_TBA == <<"T", "B", "A">>

\* line 241: what one line of the body shows of an event
bodyLine(e) ==
    [time |-> e.time, name |-> e.name, type |-> e.type,
     location |-> IF Len(e.location) = 0 THEN Str_TBA ELSE e.location]

\* ret is TRUE when the message was written out; shown is then its body
sendReminderForDate(date) ==
    /\ ~terminated
    /\ op' = "sendReminderForDate"
    /\ LET list == SelectSeq(events, LAMBDA e : e.date = date)
       IN IF Len(list) = 0
          THEN /\ status' = "No events on this date."
               /\ shown' = <<>>
               /\ ret' = FALSE
          ELSE \E sorted \in byTime(list) :
                  IF Len(attendeeEmails) = 0
                  THEN /\ status' = "No attendee emails loaded. Choose 'Load attendees' first."
                       /\ shown' = <<>>
                       /\ ret' = FALSE
                  ELSE /\ status' = "[SIMULATED EMAIL SEND]"
                       /\ shown' = [i \in 1..Len(sorted) |-> bodyLine(sorted[i])]
                       /\ ret' = TRUE
    /\ UNCHANGED <<events, nextId, terminated, attendeeEmails>>

----------------------------------------------------------------------------
\* Views and statistics

icontains(text, key) == Contains(toLower(text), toLower(key))

\* dayView sorts the events of the date as sendReminderForDate does
dayView(date) ==
    /\ ~terminated
    /\ op' = "dayView"
    /\ LET list == SelectSeq(events, LAMBDA e : e.date = date)
       IN IF Len(list) = 0
          THEN shown' = <<>> /\ status' = "No events on this date."
          ELSE shown' \in byTime(list) /\ status' = "ID Name Date Time Type Location"
    /\ ret' = TRUE
    /\ UNCHANGED <<events, nextId, terminated>>

\* today() is the date the system clock gives
todaysEvents(today) == dayView(today)

\* std::sort with the comparator of line 208
byId(list) ==
    {l \in {[i \in 1..Len(list) |-> list[p[i]]] : p \in Perms(Len(list))} :
        \A i, j \in 1..Len(list) : i < j => ~(l[j].id < l[i].id)}

search(keyword) ==
    /\ ~terminated
    /\ op' = "search"
    /\ LET list == SelectSeq(events, LAMBDA e : icontains(e.name, keyword)
                                                   \/ icontains(e.type, keyword))
       IN IF Len(list) = 0
          THEN shown' = <<>> /\ status' = "No matches."
          ELSE shown' \in byId(list) /\ status' = "ID Name Date Time Type Location"
    /\ ret' = TRUE
    /\ UNCHANGED <<events, nextId, terminated>>

\* statistics, lines 214-217: the dates with their counts, larger counts
\* first, at most five of them
topDates(evs) ==
    LET dates == {evs[i].date : i \in 1..Len(evs)}
        count(d) == Cardinality({i \in 1..Len(evs) : evs[i].date = d})
        n == Cardinality(dates)
        v == {l \in [1..n -> dates] :
                 /\ \A i, j \in 1..n : i # j => l[i] # l[j]
                 /\ \A i, j \in 1..n : i < j => ~(count(l[j]) > count(l[i]))}
    IN {[i \in 1..(IF n < 5 THEN n ELSE 5) |->
            [date |-> l[i], count |-> count(l[i])]] : l \in v}

statistics ==
    /\ ~terminated
    /\ op' = "statistics"
    /\ \E top \in topDates(events) :
          shown' =
            <<[total |-> Len(events),
               byType |-> {[type |-> t,
                            count |-> Cardinality({i \in 1..Len(events) :
                                                     events[i].type = t})] :
                           t \in {events[i].type : i \in 1..Len(events)}},
               top |-> top]>>
    /\ status' = "Total events"
    /\ ret' = TRUE
    /\ UNCHANGED <<events, nextId, terminated>>

----------------------------------------------------------------------------
\* main: the login at startup and the menu loop.  What is typed at a prompt
\* and only compared whole is an ordinary string.

\* adminLogin, line 301
accepts(user, pass) ==
    (user = "admin" \/ user = "ACMadmin") /\ pass = "admin123"

adminLogin(user, pass) ==
    IF accepts(user, pass)
    THEN isAdmin' = TRUE /\ status' = "Logged in as admin."
    ELSE UNCHANGED isAdmin /\ status' = "Invalid credentials. Continuing as viewer."

\* main, line 328
startup(ans, user, pass) ==
    /\ pc = "start"
    /\ pc' = "menu"
    /\ op' = "startup"
    /\ IF ans = "y" \/ ans = "Y" THEN adminLogin(user, pass)
       ELSE UNCHANGED isAdmin /\ status' = ""
    /\ ret' = TRUE
    /\ shown' = <<>>
    /\ UNCHANGED <<events, nextId, terminated, attendeeEmails>>

branch_ungated(choice) ==
    CASE choice = "1" -> "listAll"
      [] choice = "2" -> "dayView"
      [] choice = "3" -> "todaysEvents"
      [] choice = "4" -> "search"
      [] choice = "5" -> "addEvent"
      [] choice = "6" -> "editEventById"
      [] choice = "7" -> "deleteById"
      [] choice = "8" -> "deleteByName"
      [] choice = "9" -> "loadAttendeesFromPaste"
      [] choice = "10" -> "sendReminderForDate"
      [] choice = "11" -> "statistics"
      [] choice = "12" -> "exportSnapshotCSV"
      [] choice = "13" -> "importSnapshotCSV"
      [] OTHER -> "invalid"

\* main, lines 332-372: the branch of the if-else chain a choice takes
branch(choice) ==
    IF choice = "1" THEN "listAll"
    ELSE IF choice = "2" THEN "dayView"
    ELSE IF choice = "3" THEN "todaysEvents"
    ELSE IF choice = "4" THEN "search"
    ELSE IF isAdmin /\ choice = "5" THEN "addEvent"
    ELSE IF isAdmin /\ choice = "6" THEN "editEventById"
    ELSE IF isAdmin /\ choice = "7" THEN "deleteById"
    ELSE IF isAdmin /\ choice = "8" THEN "deleteByName"
    ELSE IF isAdmin /\ choice = "9" THEN "loadAttendeesFromPaste"
    ELSE IF isAdmin /\ choice = "10" THEN "sendReminderForDate"
    ELSE IF isAdmin /\ choice = "11" THEN "statistics"
    ELSE IF isAdmin /\ choice = "12" THEN "exportSnapshotCSV"
    ELSE IF isAdmin /\ choice = "13" THEN "importSnapshotCSV"
    ELSE "invalid"

\* One round of the loop that reads a choice other than "0"
chosen(choice, taken) ==
    /\ pc = "menu"
    /\ ~terminated
    /\ choice # "0"
    /\ branch(choice) = taken
    /\ call' = [choice |-> choice]
    /\ UNCHANGED <<pc, isAdmin, usedIds, snapshot, imported>>

\* main prints a message and calls nothing
refuse(message) ==
    /\ op' = "main"
    /\ status' = message
    /\ ret' = FALSE
    /\ shown' = <<>>
    /\ UNCHANGED <<events, nextId, terminated, attendeeEmails>>

\* main, line 331
exit ==
    /\ pc = "menu"
    /\ ~terminated
    /\ pc' = "exit"
    /\ op' = "exit"
    /\ status' = "Goodbye!"
    /\ ret' = TRUE
    /\ shown' = <<>>
    /\ call' = [choice |-> "0"]
    /\ UNCHANGED <<events, nextId, terminated, attendeeEmails, isAdmin,
                   usedIds, snapshot, imported>>

\* lines 351 and 355: the test main makes of the id typed
allDigits(s) == Len(s) > 0 /\ \A k \in 1..Len(s) : isdigit(s[k])

\* std::stoi throws std::out_of_range when the digits exceed INT_MAX
RECURSIVE dropZeros(_)
dropZeros(s) ==
    IF Len(s) > 1 /\ Head(s) = "0" THEN dropZeros(Tail(s)) ELSE s
outOfRange(s) ==
    LET z == dropZeros(s)
    IN Len(z) > 10 \/ (Len(z) = 10 /\ StringLess(to_string(INT_MAX), z))

\* main, lines 350-352: what becomes of the id typed
idTyped(s) ==
    IF ~allDigits(s) THEN "invalid" ELSE IF outOfRange(s) THEN "throws" ELSE "ok"

\* the exception of std::stoi is caught nowhere
uncaught ==
    /\ terminated' = TRUE
    /\ op' = "main"
    /\ status' = "terminated: std::out_of_range"
    /\ ret' = FALSE
    /\ shown' = <<>>
    /\ UNCHANGED <<events, nextId, attendeeEmails>>

----------------------------------------------------------------------------
\* Specifications

\* Arguments the operations are called with: an id is one a live event has,
\* or 0, which no live event has
CallIds == IdsOf(events) \cup {0}
EditInputs ==
    [name : {Blank, Str_a},
     date : {Blank, Date_01_01_2030, Date_31_04_2030},
     time : {Blank, Time_09_00, Time_09_30, Time_24_00},
     type : {Blank}, location : {Blank}]

\* The store and the id counter stay within the bounds of the model
WithinBounds == Len(events') <= MaxEvents /\ nextId' <= MaxNextId

\* The history variables are left alone, or record the ids now live and the
\* arguments of the call
\* A call made on the manager itself loads no recipients and is no step of
\* main
SameSession == UNCHANGED <<attendeeEmails, isAdmin, pc>>

\* An operation that lists nothing, exports nothing and imports nothing
Quiet == shown' = <<>> /\ UNCHANGED <<snapshot, imported>> /\ SameSession

NoHistory == UNCHANGED <<usedIds, call>> /\ Quiet
RecordIds == usedIds' = usedIds \cup IdsOf(events') /\ UNCHANGED call /\ Quiet
RecordCall(name, date, time, type, location) ==
    /\ call' = [name |-> name, date |-> date, time |-> time,
                type |-> type, location |-> location]
    /\ UNCHANGED usedIds
    /\ Quiet
ClearCall == call' = <<>> /\ UNCHANGED usedIds /\ Quiet

NextCrud ==
    \/ \E name \in Names, date \in Dates, time \in Times :
            addEvent(name, date, time, Str_T, Str_L) /\ WithinBounds /\ NoHistory
    \/ \E id \in CallIds, in \in EditInputs : editEventById(id, in) /\ NoHistory
    \/ \E id \in CallIds : deleteById(id) /\ NoHistory
    \/ \E name \in Names : deleteByName(name) /\ NoHistory

\* add, edit and delete calls only, from the empty store
SpecCrud == Init /\ [][NextCrud]_vars

Next ==
    \/ \E name \in Names, date \in Dates, time \in Times :
            addEvent(name, date, time, Str_T, Str_L) /\ WithinBounds /\ NoHistory
    \/ \E id \in CallIds, in \in EditInputs : editEventById(id, in) /\ NoHistory
    \/ \E id \in CallIds : deleteById(id) /\ NoHistory
    \/ \E name \in Names : deleteByName(name) /\ NoHistory
    \/ \E lines \in Pastes : importSnapshotCSV(lines) /\ WithinBounds /\ NoHistory

\* every operation that changes the store
Spec == Init /\ [][Next]_vars

FewEdits ==
    [name : {Blank}, date : {Blank, Date_01_01_2030},
     time : {Blank, Time_09_30}, type : {Blank}, location : {Blank}]
FewPastes ==
    UNION {[1..n -> {Line_1_A_0900, Line_2_a_0930, Line_neg_A}] : n \in 0..MaxLines}

NextHistory ==
    \/ \E date \in {Date_01_01_2030, Date_02_01_2030},
          time \in {Time_09_00, Time_09_30} :
            addEvent(Str_A, date, time, Str_T, Str_L) /\ WithinBounds /\ RecordIds
    \/ \E id \in CallIds, in \in FewEdits : editEventById(id, in) /\ RecordIds
    \/ \E id \in CallIds : deleteById(id) /\ RecordIds
    \/ deleteByName(Str_a) /\ RecordIds
    \/ \E lines \in FewPastes :
            importSnapshotCSV(lines) /\ WithinBounds /\ RecordIds

\* every operation that changes the store, with the ids held so far recorded
SpecHistory == Init /\ [][NextHistory]_vars

NextCalls ==
    \/ \E name \in Names, date \in Dates, time \in Times :
            /\ addEvent(name, date, time, Str_T, Str_L)
            /\ WithinBounds
            /\ RecordCall(name, date, time, Str_T, Str_L)
    \/ \E id \in CallIds, in \in FewEdits : editEventById(id, in) /\ ClearCall
    \/ \E id \in CallIds : deleteById(id) /\ ClearCall
    \/ \E name \in Names : deleteByName(name) /\ ClearCall
    \/ \E lines \in FewPastes :
            importSnapshotCSV(lines) /\ WithinBounds /\ ClearCall

\* every operation that changes the store, with addEvent's arguments recorded
SpecCalls == Init /\ [][NextCalls]_vars

\* Edits that supply no field, one field, two fields, or all five
NoInput ==
    [name |-> Blank, date |-> Blank, time |-> Blank, type |-> Blank,
     location |-> Blank]
SomeEdits ==
    {NoInput,
     [NoInput EXCEPT !.name = Str_a],
     [NoInput EXCEPT !.date = Date_02_01_2030],
     [NoInput EXCEPT !.date = Date_02_01_2030, !.time = Time_09_30],
     [NoInput EXCEPT !.type = Str_L],
     [NoInput EXCEPT !.location = Str_T],
     [name |-> Str_a, date |-> Date_02_01_2030, time |-> Time_09_30,
      type |-> Str_L, location |-> Str_T]}
RecordEdit(id, in) ==
    call' = [id |-> id, in |-> in] /\ UNCHANGED usedIds /\ Quiet

NextEdits ==
    \/ \E date \in {Date_01_01_2030, Date_02_01_2030} :
            addEvent(Str_A, date, Time_09_00, Str_T, Str_L)
               /\ WithinBounds /\ ClearCall
    \/ \E id \in CallIds, in \in SomeEdits :
            editEventById(id, in) /\ RecordEdit(id, in)
    \/ \E id \in CallIds : deleteById(id) /\ ClearCall
    \/ deleteByName(Str_a) /\ ClearCall
    \/ \E lines \in {<<Line_2_a_0930>>, <<Line_1_A_0900, Line_1_A_0900>>} :
            importSnapshotCSV(lines) /\ WithinBounds /\ ClearCall

\* every operation that changes the store, with editEventById's arguments
\* recorded
SpecEdits == Init /\ [][NextEdits]_vars

----------------------------------------------------------------------------
\* Properties

\* The start times of a and b are less than 60 minutes apart
LessThanHourApart(a, b) ==
    /\ toMinutes(a.time) - toMinutes(b.time) < 60
    /\ toMinutes(b.time) - toMinutes(a.time) < 60

\* Some live event has the date and starts less than 60 minutes before or
\* after the time
Overlaps(date, time) ==
    \E i \in 1..Len(events) :
        /\ events[i].date = date
        /\ LessThanHourApart(events[i], [time |-> time])

\* Some live event has the name (case-insensitively), the date and the time
SameTriple(name, date, time) ==
    \E i \in 1..Len(events) :
        /\ toLower(events[i].name) = toLower(name)
        /\ events[i].date = date
        /\ events[i].time = time

\* C1: after any sequence of add, edit and delete calls, no two distinct live
\* events have the same date and start times less than 60 minutes apart.
C1_ConflictRule ==
    \A i, j \in 1..Len(events) :
        (i # j /\ events[i].date = events[j].date)
            => ~LessThanHourApart(events[i], events[j])

\* Two live events share a date, and an add was just rejected for conflict.
C1_Witness ==
    /\ Len(events) = 2
    /\ events[1].date = events[2].date
    /\ op = "addEvent"
    /\ status = "Conflict with Event ID"

\* C2: after any sequence of add, edit and delete calls, no two distinct live
\* events have the same (name case-insensitively, date, time) triple.
C2_DuplicateRule ==
    \A i, j \in 1..Len(events) :
        i # j => ~(/\ toLower(events[i].name) = toLower(events[j].name)
                   /\ events[i].date = events[j].date
                   /\ events[i].time = events[j].time)

\* An edit that would have made a duplicate was reverted; two events are live.
C2_Witness ==
    /\ Len(events) = 2
    /\ op = "editEventById"
    /\ status = "Duplicate after edit. Reverting."

\* C3: in every state reachable by add, edit, delete and import calls, every
\* live event has a positive id and no two live events share an id.
C3_IdsPositiveAndUnique ==
    /\ \A i \in 1..Len(events) : events[i].id > 0
    /\ \A i, j \in 1..Len(events) : i # j => events[i].id # events[j].id

\* C4: the id a successful addEvent gives to the new event is one that no
\* event held at any earlier point of the run.
C4_IdsNeverReused ==
    [][(op' = "addEvent" /\ ret' = TRUE)
          => events'[Len(events')].id \notin usedIds]_vars

\* C5: a rejected addEvent does not consume an id, so the successful adds
\* are numbered consecutively.
C5_RejectedAddKeepsNextId ==
    [][(op' = "addEvent" /\ ret' = FALSE) => nextId' = nextId]_vars

\* C6: every rejected addEvent returns false and leaves the live event
\* collection exactly as it was: same events, same field values, same order.
C6_RejectedAddKeepsEvents ==
    [][(op' = "addEvent" /\ status' # "Event added with ID")
          => (ret' = FALSE /\ events' = events)]_vars

\* An add was rejected for conflict while two events were live.
C6_Witness ==
    /\ op = "addEvent"
    /\ ret = FALSE
    /\ status = "Conflict with Event ID"
    /\ Len(events) = 2

\* C7: addEvent reports the first reason that applies in the order date
\* invalid, time invalid, duplicate, conflict, and no other.
C7_AddRejectionPriority ==
    [][op' = "addEvent" =>
          status' =
             IF ~isValidDate(call'.date) THEN "Invalid date. Use DD-MM-YYYY."
             ELSE IF ~isValidTime(call'.time) THEN "Invalid time. Use HH:MM (24h)."
             ELSE IF SameTriple(call'.name, call'.date, call'.time)
                  THEN "Duplicate event exists."
             ELSE IF Overlaps(call'.date, call'.time) THEN "Conflict with Event ID"
             ELSE "Event added with ID"]_vars

\* An add was rejected as a duplicate of a live event, which it also
\* conflicts with.
C7_Witness ==
    /\ op = "addEvent"
    /\ ret = FALSE
    /\ status = "Duplicate event exists."
    /\ SameTriple(call.name, call.date, call.time)
    /\ Overlaps(call.date, call.time)

C9_AddSucceedsIff ==
    [][op' = "addEvent" =>
          /\ ret' = TRUE <=>
                (/\ isValidDate(call'.date)
                 /\ isValidTime(call'.time)
                 /\ ~Overlaps(call'.date, call'.time))
          /\ ret' = TRUE =>
                /\ Len(events') = Len(events) + 1
                /\ SubSeq(events', 1, Len(events)) = events
                /\ LET e == events'[Len(events')]
                   IN /\ e.name = call'.name
                      /\ e.date = call'.date
                      /\ e.time = call'.time
                      /\ e.type = call'.type
                      /\ e.location = call'.location]_vars

\* An add succeeded exactly 60 minutes after a live event of the same name,
\* date, type and location.
C9_Witness ==
    /\ op = "addEvent"
    /\ ret = TRUE
    /\ Len(events) = 2
    /\ events[1].name = events[2].name
    /\ events[1].date = events[2].date
    /\ events[1].type = events[2].type
    /\ events[1].location = events[2].location
    /\ toMinutes(events[2].time) - toMinutes(events[1].time) = 60

\* C10: a failed editEventById returns false and leaves the store as it was:
\* every event's fields, the order of the events and the id counter.
C10_FailedEditKeepsStore ==
    [][(op' = "editEventById" /\ status' # "Event updated.")
          => (ret' = FALSE /\ events' = events /\ nextId' = nextId)]_vars

\* An edit was rejected for conflict and reverted.
C10_Witness ==
    /\ op = "editEventById"
    /\ ret = FALSE
    /\ status = "Conflict after edit. Reverting."
    /\ Len(events) = 2

Date_01_02_2030 == <<"0", "1", "-", "0", "2", "-", "2", "0", "3", "0">>
Durations == {30, 60, 720}

NextQueries ==
    \/ \E date \in {Date_01_01_2030, Date_02_01_2030, Date_01_02_2030},
          time \in {Time_09_00, Time_09_30, Time_10_00} :
            addEvent(Str_A, date, time, Str_T, Str_L) /\ WithinBounds /\ ClearCall
    \/ \E id \in CallIds, in \in FewEdits : editEventById(id, in) /\ ClearCall
    \/ \E id \in CallIds : deleteById(id) /\ ClearCall
    \/ \E lines \in {<<Line_1_A_0900, Line_1_A_0900>>} :
            importSnapshotCSV(lines) /\ WithinBounds /\ ClearCall
    \/ \E date \in {Date_01_01_2030, Date_02_01_2030}, duration \in Durations :
            /\ suggestSlots(date, duration)
            /\ call' = [date |-> date, duration |-> duration]
            /\ UNCHANGED <<usedIds, snapshot, imported>> /\ SameSession
    \/ listAll /\ call' = <<>> /\ UNCHANGED <<usedIds, snapshot, imported>> /\ SameSession

\* the operations that change the store and those that list from it
SpecQueries == Init /\ [][NextQueries]_vars

NextSnapshot ==
    \/ \E name \in {Str_A, Blank}, time \in {Time_09_00, Time_10_00} :
            addEvent(name, Date_01_01_2030, time, Str_T, Str_L)
               /\ WithinBounds /\ NoHistory
    \/ \E id \in CallIds :
            editEventById(id, [NoInput EXCEPT !.time = Time_10_00]) /\ NoHistory
    \/ \E id \in CallIds : deleteById(id) /\ NoHistory
    \/ /\ exportSnapshotCSV
       /\ snapshot' = [lines |-> shown', store |-> events]
       /\ UNCHANGED <<usedIds, call, imported>> /\ SameSession
    \/ /\ snapshot.lines # <<>>
       /\ importSnapshotCSV(snapshot.lines)
       /\ WithinBounds
       /\ imported' = (imported \/ ret')
       /\ shown' = <<>>
       /\ UNCHANGED <<usedIds, call, snapshot>> /\ SameSession

\* add, edit and delete calls, exports, and imports of the lines last
\* exported
SpecSnapshot == Init /\ [][NextSnapshot]_vars

\* Edits that supply an invalid date, or an invalid time with a valid name
BadEdits ==
    {[NoInput EXCEPT !.date = Date_31_04_2030],
     [NoInput EXCEPT !.name = Str_a, !.time = Time_24_00]}

NextCrudEdits ==
    \/ \E date \in {Date_01_01_2030, Date_02_01_2030} :
            addEvent(Str_A, date, Time_09_00, Str_T, Str_L)
               /\ WithinBounds /\ ClearCall
    \/ \E id \in CallIds, in \in SomeEdits \cup BadEdits :
            editEventById(id, in) /\ RecordEdit(id, in)
    \/ \E id \in CallIds : deleteById(id) /\ ClearCall
    \/ deleteByName(Str_a) /\ ClearCall

\* add, edit and delete calls only, with editEventById's arguments recorded
SpecCrudEdits == Init /\ [][NextCrudEdits]_vars

\* The store stays within the bounds of the model, and so does the id
\* counter, above 0 and above INT_MIN
WithinWideBounds ==
    /\ WithinBounds
    /\ nextId' < 0 => nextId' <= INT_MIN + MaxNextId

NextWide ==
    \/ \E date \in {Date_01_01_2030, Date_02_01_2030} :
            addEvent(Str_A, date, Time_09_00, Str_T, Str_L)
               /\ WithinWideBounds /\ NoHistory
    \/ \E id \in CallIds, in \in FewEdits : editEventById(id, in) /\ NoHistory
    \/ \E id \in CallIds : deleteById(id) /\ NoHistory
    \/ \E lines \in UNION {[1..n -> {Line_1_A_0900, Line_intmax}] : n \in 0..MaxLines} :
            importSnapshotCSV(lines) /\ WithinWideBounds /\ NoHistory

\* every operation that changes the store, with the largest id an int holds
\* among the pasted ones
SpecWide == Init /\ [][NextWide]_vars

\* Retries may take the store and the id counter one step past the bounds
WithinRetryBounds ==
    Len(events') <= MaxEvents + 1 /\ nextId' <= MaxNextId + 1
RetryEdits ==
    {[NoInput EXCEPT !.time = Time_09_30],
     [NoInput EXCEPT !.name = Str_a, !.date = Date_01_01_2030]}
\* The arguments of the call and whether it is a retry are recorded; nothing
\* is exported or imported
RecordTry(args, retry) ==
    /\ call' = [args |-> args, retry |-> retry]
    /\ UNCHANGED <<usedIds, snapshot, imported>> /\ SameSession

\* addEvent and editEventById with the slots they print on a conflict
addShowingSlots(name, date, time, retry) ==
    /\ addEvent(name, date, time, Str_T, Str_L)
    /\ shown' = addSlots(name, date, time)
    /\ RecordTry([name |-> name, date |-> date, time |-> time], retry)
editShowingSlots(id, in, retry) ==
    /\ editEventById(id, in)
    /\ shown' = editSlots(events, id, in)
    /\ RecordTry([id |-> id, in |-> in], retry)

NextRetry ==
    \/ \E date \in {Date_01_01_2030, Date_02_01_2030},
          time \in {Time_09_00, Time_09_30} :
            addShowingSlots(Str_A, date, time, FALSE) /\ WithinBounds
    \/ \E id \in CallIds, in \in RetryEdits : editShowingSlots(id, in, FALSE)
    \/ \E id \in CallIds :
            deleteById(id) /\ shown' = <<>> /\ RecordTry(<<>>, FALSE)
    \/ /\ importSnapshotCSV(<<Line_1_A_0900, Line_2_a_0930>>)
       /\ WithinBounds
       /\ shown' = <<>>
       /\ RecordTry(<<>>, FALSE)
    \/ /\ op = "addEvent"
       /\ status = "Conflict with Event ID"
       /\ \E k \in 1..Len(shown) :
             addShowingSlots(call.args.name, call.args.date, shown[k].from, TRUE)
       /\ WithinRetryBounds
    \/ /\ op = "editEventById"
       /\ status = "Conflict after edit. Reverting."
       /\ \E k \in 1..Len(shown) :
             editShowingSlots(call.args.id,
                              [call.args.in EXCEPT !.time = shown[k].from], TRUE)

\* the operations that change the store, and retries of a call rejected for
\* conflict at a start time it suggested
SpecRetry == Init /\ [][NextRetry]_vars

Mail_abc == <<"a", "@", "b", ".", "c">>
EmailLines ==
    {Blank, Mail_abc, Mail_abc \o <<",", " ", "x", "@", "y">>,
     <<"a", "@", "b", ";", " ">> \o Mail_abc \o <<";">>, <<" ", ".", ",">>}
EmailPastes == UNION {[1..n -> EmailLines] : n \in 0..MaxLines}

NextReminders ==
    \/ \E date \in {Date_01_01_2030, Date_02_01_2030},
          time \in {Time_09_00, Time_10_00}, location \in {Str_L, Blank} :
            addEvent(Str_A, date, time, Str_T, location)
               /\ WithinBounds /\ ClearCall
    \/ \E id \in CallIds : deleteById(id) /\ ClearCall
    \/ importSnapshotCSV(<<Line_1_A_0900, Line_1_A_0900>>)
          /\ WithinBounds /\ ClearCall
    \/ \E lines \in EmailPastes :
            /\ loadAttendeesFromPaste(lines)
            /\ shown' = <<>>
            /\ call' = <<>>
            /\ UNCHANGED <<usedIds, snapshot, imported, isAdmin, pc>>
    \/ \E date \in {Date_01_01_2030, Date_02_01_2030} :
            /\ sendReminderForDate(date)
            /\ call' = [date |-> date]
            /\ UNCHANGED <<usedIds, snapshot, imported, isAdmin, pc>>

\* the operations that fill and empty the store, the loading of recipients
\* and the sending of reminders
SpecReminders == Init /\ [][NextReminders]_vars

Choices == {"1", "2", "3", "4", "5", "6", "7", "8", "9", "10", "11", "12",
            "13", "14", "x", ""}
Answers == {"y", "Y", "yes", "n", ""}
Users == {"admin", "ACMadmin", "Admin", ""}
Passwords == {"admin123", "Admin123", ""}
IdStrings ==
    {<<"1">>, <<"0", "2">>, <<"x">>, Blank,
     <<"9", "9", "9", "9", "9", "9", "9", "9", "9", "9", "9">>}
TypedDates == {Date_01_01_2030, Date_31_04_2030}

NextMain ==
    \/ \E ans \in Answers, user \in Users, pass \in Passwords :
            /\ startup(ans, user, pass)
            /\ call' = [ans |-> ans, user |-> user, pass |-> pass]
            /\ UNCHANGED <<usedIds, snapshot, imported>>
    \/ exit
    \/ \E choice \in Choices :
            chosen(choice, "listAll") /\ listAll /\ UNCHANGED attendeeEmails
    \/ \E choice \in Choices, d \in TypedDates :
            /\ chosen(choice, "dayView")
            /\ IF ~isValidDate(d) THEN refuse("Invalid date.")
               ELSE dayView(d) /\ UNCHANGED attendeeEmails
    \/ \E choice \in Choices, today \in {Date_01_01_2030, Date_02_01_2030} :
            /\ chosen(choice, "todaysEvents")
            /\ todaysEvents(today)
            /\ UNCHANGED attendeeEmails
    \/ \E choice \in Choices, k \in {Str_a, Str_L} :
            chosen(choice, "search") /\ search(k) /\ UNCHANGED attendeeEmails
    \/ \E choice \in Choices, time \in {Time_09_00, Time_10_00} :
            /\ chosen(choice, "addEvent")
            /\ addEvent(Str_A, Date_01_01_2030, time, Str_T, Blank)
            /\ WithinBounds
            /\ shown' = <<>>
            /\ UNCHANGED attendeeEmails
    \/ \E choice \in Choices, s \in IdStrings :
            /\ chosen(choice, "editEventById")
            /\ CASE idTyped(s) = "invalid" -> refuse("Invalid ID.")
                 [] idTyped(s) = "throws" -> uncaught
                 [] OTHER ->
                      /\ editEventById(DecimalValue(s),
                                       [NoInput EXCEPT !.time = Time_09_30])
                      /\ shown' = <<>>
                      /\ UNCHANGED attendeeEmails
    \/ \E choice \in Choices, s \in IdStrings :
            /\ chosen(choice, "deleteById")
            /\ CASE idTyped(s) = "invalid" -> refuse("Invalid ID.")
                 [] idTyped(s) = "throws" -> uncaught
                 [] OTHER ->
                      /\ deleteById(DecimalValue(s))
                      /\ shown' = <<>>
                      /\ UNCHANGED attendeeEmails
    \/ \E choice \in Choices :
            /\ chosen(choice, "deleteByName")
            /\ deleteByName(Str_a)
            /\ shown' = <<>>
            /\ UNCHANGED attendeeEmails
    \/ \E choice \in Choices, lines \in {<<Mail_abc>>, <<Blank, Mail_abc>>} :
            /\ chosen(choice, "loadAttendeesFromPaste")
            /\ loadAttendeesFromPaste(lines)
            /\ shown' = <<>>
    \/ \E choice \in Choices, d \in TypedDates :
            /\ chosen(choice, "sendReminderForDate")
            /\ IF ~isValidDate(d) THEN refuse("Invalid date.")
               ELSE sendReminderForDate(d)
    \/ \E choice \in Choices :
            chosen(choice, "statistics") /\ statistics /\ UNCHANGED attendeeEmails
    \/ \E choice \in Choices :
            /\ chosen(choice, "exportSnapshotCSV")
            /\ exportSnapshotCSV
            /\ UNCHANGED attendeeEmails
    \/ \E choice \in Choices :
            /\ chosen(choice, "importSnapshotCSV")
            /\ importSnapshotCSV(<<Header, Line_2_a_0930>>)
            /\ WithinBounds
            /\ shown' = <<>>
            /\ UNCHANGED attendeeEmails
    \/ \E choice \in Choices :
            chosen(choice, "invalid") /\ refuse("Invalid choice.")

\* a run of main: the login prompt, then the menu loop until the exit
SpecMain == Init /\ [][NextMain]_vars

\* The state before a helper function is applied to arguments drawn from args
InitPure(args) ==
    /\ call \in args
    /\ events = <<>>
    /\ nextId = 1
    /\ terminated = FALSE
    /\ usedIds = {}
    /\ op = "none"
    /\ ret = TRUE
    /\ status = ""
    /\ shown = <<>>
    /\ snapshot = [lines |-> <<>>, store |-> <<>>]
    /\ imported = FALSE
    /\ attendeeEmails = <<>>
    /\ isAdmin = FALSE
    /\ pc = "start"
\* A helper function reads and writes nothing of the manager
PureFrame ==
    UNCHANGED <<events, nextId, terminated, usedIds, call, status, snapshot,
                imported, attendeeEmails, isAdmin, pc>>

Time_00_00 == <<"0", "0", ":", "0", "0">>
Time_00_30 == <<"0", "0", ":", "3", "0">>
Time_09_59 == <<"0", "9", ":", "5", "9">>
Time_23_30 == <<"2", "3", ":", "3", "0">>
Time_23_59 == <<"2", "3", ":", "5", "9">>
ConflictArgs ==
    LET evs == [date : {Date_01_01_2030, Date_02_01_2030},
                time : {Time_00_00, Time_00_30, Time_09_00, Time_09_59,
                        Time_10_00, Time_23_30, Time_23_59}]
    IN [a : evs, b : evs]

applyConflicts ==
    /\ op = "none"
    /\ op' = "conflicts"
    /\ ret' = conflicts(call.a, call.b)
    /\ shown' = <<>>
    /\ PureFrame

\* conflicts applied to a pair of events with valid times
SpecConflicts == InitPure(ConflictArgs) /\ [][applyConflicts]_vars

\* Every string of the shape dd:dd, valid time or not, and some numbers of
\* minutes below, inside and above a day
DigitChars == {Digits[i] : i \in 1..10}
TimeArgs ==
    {[t |-> <<a, b, ":", c, d>>] : a, b, c, d \in DigitChars}
MinuteArgs ==
    {[m |-> n] : n \in (-3..3) \cup (1437..1443) \cup {599, 600, 2879, 2880, 2881, 100000}}

applyToMinutes ==
    /\ op = "none"
    /\ DOMAIN call = {"t"}
    /\ op' = "toMinutes"
    /\ shown' = [minutes |-> toMinutes(call.t),
                 back |-> fromMinutes(toMinutes(call.t))]
    /\ ret' = TRUE
    /\ PureFrame

applyFromMinutes ==
    /\ op = "none"
    /\ DOMAIN call = {"m"}
    /\ op' = "fromMinutes"
    /\ shown' = fromMinutes(call.m)
    /\ ret' = TRUE
    /\ PureFrame

NextMinutes == applyToMinutes \/ applyFromMinutes

\* toMinutes and fromMinutes applied to times and to numbers of minutes
SpecMinutes == InitPure(TimeArgs \cup MinuteArgs) /\ [][NextMinutes]_vars

\* A number written with the given count of decimal digits
RECURSIVE Written(_, _)
Written(n, width) ==
    IF width = 0 THEN <<>>
    ELSE Written(n \div 10, width - 1) \o <<Digits[(n % 10) + 1]>>

\* Well-formed DD-MM-YYYY strings, with the numbers they are written from,
\* and strings that are not of that shape
WellFormedDates ==
    {[d |-> Written(day, 2) \o <<"-">> \o Written(mon, 2) \o <<"-">> \o Written(yr, 4),
      wellFormed |-> TRUE, day |-> day, mon |-> mon, yr |-> yr] :
        day \in {0, 1, 28, 29, 30, 31, 32, 99},
        mon \in {0, 1, 2, 4, 6, 9, 11, 12, 13},
        yr \in {0, 1899, 1900, 2000, 2023, 2024, 2100, 3000, 3001}}
MalformedDateStrings ==
    {<<>>,
     <<"1", "-", "1", "-", "2", "0", "3", "0">>,
     <<"0", "1", "/", "0", "1", "/", "2", "0", "3", "0">>,
     <<"0", "1", "-", "0", "1", "-", "2", "0", "3">>,
     <<"0", "1", "-", "0", "1", "-", "2", "0", "3", "0", "0">>,
     <<"0", "a", "-", "0", "1", "-", "2", "0", "3", "0">>,
     <<"-", "1", "-", "0", "1", "-", "2", "0", "3", "0">>,
     <<"+", "1", "-", "0", "1", "-", "2", "0", "3", "0">>,
     <<" ", "1", "-", "0", "1", "-", "2", "0", "3", "0">>,
     <<"0", "1", "-", "0", "1", "-", " ", "2", "0", "3">>,
     <<"2", "0", "3", "0", "-", "0", "1", "-", "0", "1">>,
     <<"a", "b", "-", "c", "d", "-", "e", "f", "g", "h">>}
DateArgs ==
    WellFormedDates \cup
    {[d |-> x, wellFormed |-> FALSE, day |-> 0, mon |-> 0, yr |-> 0] :
        x \in MalformedDateStrings}

applyIsValidDate ==
    /\ op = "none"
    /\ op' = "isValidDate"
    /\ ret' = isValidDate(call.d)
    /\ shown' = <<>>
    /\ PureFrame

\* isValidDate applied to well-formed and malformed strings
SpecDates == InitPure(DateArgs) /\ [][applyIsValidDate]_vars

\* The value a field has after a successful edit: the supplied one, or the
\* one it had when a blank line was given
Supplied(given, had) == IF given # Blank THEN given ELSE had

\* C11: a successful editEventById changes only the targeted event and only
\* the fields a non-blank value was supplied for; its id and position, each
\* unsupplied field, every other event and the id counter are unchanged.
C11_EditFrame ==
    [][(op' = "editEventById" /\ ret' = TRUE) =>
          LET i == find_if(events, call'.id)
              in == call'.in
          IN /\ i # 0
             /\ Len(events') = Len(events)
             /\ \A k \in 1..Len(events) : k # i => events'[k] = events[k]
             /\ events'[i].id = events[i].id
             /\ events'[i].name = Supplied(in.name, events[i].name)
             /\ events'[i].date = Supplied(in.date, events[i].date)
             /\ events'[i].time = Supplied(in.time, events[i].time)
             /\ events'[i].type = Supplied(in.type, events[i].type)
             /\ events'[i].location = Supplied(in.location, events[i].location)
             /\ nextId' = nextId]_vars

\* An edit that supplied only a type succeeded on the second of two events:
\* the type is the new one, the location is the one given at the add.
C11_Witness ==
    /\ op = "editEventById"
    /\ ret = TRUE
    /\ Len(events) = 2
    /\ call.id = events[2].id
    /\ call.id # events[1].id
    /\ call.in = [NoInput EXCEPT !.type = Str_L]
    /\ events[2].type = Str_L
    /\ events[2].location = Str_L

\* C12: every live event has a valid date and a valid time in every state
\* between operations, for any sequence of add, edit, delete and import
\* calls; an invalid date or time supplied to an edit never stays.
C12_DatesAndTimesValid ==
    \A i \in 1..Len(events) :
        isValidDate(events[i].date) /\ isValidTime(events[i].time)

\* An edit that supplied an invalid date or time was reverted, with two
\* events live.
C12_Witness ==
    /\ op = "editEventById"
    /\ ret = FALSE
    /\ status = "Invalid date/time. Reverting."
    /\ Len(events) = 2

\* C13: every live event has a non-empty name in every reachable state, for
\* any sequence of add, edit, delete and import calls, empty name arguments
\* included.
C13_NamesNonEmpty == \A i \in 1..Len(events) : events[i].name # <<>>

\* The position in events of the k-th event whose position is not in gone
KeptIndex(gone, k) ==
    CHOOSE i \in 1..Len(events) :
        i \notin gone /\ Cardinality({j \in 1..i : j \notin gone}) = k

\* The step removed the events at the positions in gone and nothing else:
\* the others keep their values and order, the id counter is unchanged, and
\* the call returned true iff gone is not empty
DeleteEffect(gone) ==
    /\ Len(events') = Len(events) - Cardinality(gone)
    /\ \A k \in 1..Len(events') : events'[k] = events[KeptIndex(gone, k)]
    /\ nextId' = nextId
    /\ ret' = TRUE <=> gone # {}

\* C14: deleteById(id) removes every live event with that id, deleteByName(name)
\* every live event whose name equals the argument case-insensitively; the
\* other events keep their values and relative order, the id counter is
\* unchanged, and the call returns true iff at least one event was removed.
C14_DeleteRemovesAllMatching ==
    [][/\ \A id \in CallIds :
             deleteById(id) =>
                DeleteEffect({i \in 1..Len(events) : events[i].id = id})
       /\ \A name \in Names :
             deleteByName(name) =>
                DeleteEffect({i \in 1..Len(events) :
                                 toLower(events[i].name) = toLower(name)})]_vars

\* A deleteByName removed the first of two events and left the second.
C14_Witness ==
    /\ op = "deleteByName"
    /\ ret = TRUE
    /\ nextId = 3
    /\ Len(events) = 1
    /\ events[1].id = 2

\* The candidate start times for a duration, and those of them whose window
\* [t, t + duration) overlaps no live event's [start, start + 60) on the date
Candidates(duration) ==
    {t \in {8 * 60 + 30 * n : n \in 0..24} : t + duration <= 20 * 60}
FreeSlots(date, duration) ==
    {t \in Candidates(duration) :
        \A i \in 1..Len(events) :
            events[i].date = date =>
                ~(/\ t < toMinutes(events[i].time) + 60
                  /\ toMinutes(events[i].time) < t + duration)}
\* The i-th smallest element of a set of numbers
Smallest(S, i) == CHOOSE t \in S : Cardinality({u \in S : u < t}) = i - 1

\* The slots listed are the first min(5, k) free candidates in ascending
\* order, and no free slot is reported iff there is none
SlotsAsClaimed ==
    \A free \in {FreeSlots(call.date, call.duration)} :
       /\ Len(shown) = IF Cardinality(free) < 5 THEN Cardinality(free) ELSE 5
       /\ \A i \in 1..Len(shown) :
             /\ toMinutes(shown[i].from) = Smallest(free, i)
             /\ toMinutes(shown[i].to) = Smallest(free, i) + call.duration
       /\ (status = "(No free 1-hour slots found in working window)")
             <=> (free = {})

\* C15: suggestSlots(date, duration) outputs, in ascending order, exactly
\* the first min(5, k) of the k free candidate start times 08:00, 08:30, ...
\* with t + duration <= 20:00; it reports that no free slot exists iff k = 0,
\* and it does not change the store.
C15_SuggestSlots ==
    [][op' = "suggestSlots" =>
          (events' = events /\ nextId' = nextId /\ SlotsAsClaimed')]_vars

\* Half-hour slots were asked for on a date with an event at 09:00: 08:30 to
\* 09:00 is offered, 09:00 and 09:30 are not.
C15_Witness ==
    /\ op = "suggestSlots"
    /\ call.duration = 30
    /\ Len(events) = 1
    /\ events[1].date = call.date
    /\ events[1].time = Time_09_00
    /\ Len(shown) = 5
    /\ shown[2] = [from |-> <<"0", "8", ":", "3", "0">>, to |-> Time_09_00]
    /\ shown[3].from = Time_10_00

\* The store of the scenario: exactly the events at 09:00 and 10:00 on
\* 01-01-2030, and the slots of that date were just asked for
ScenarioSuggest ==
    /\ op = "suggestSlots"
    /\ call = [date |-> Date_01_01_2030, duration |-> 60]
    /\ Len(events) = 2
    /\ events[1].date = Date_01_01_2030 /\ events[1].time = Time_09_00
    /\ events[2].date = Date_01_01_2030 /\ events[2].time = Time_10_00
\* The windows listed, as <<start, end>> in minutes
WindowsShown ==
    {<<toMinutes(shown[i].from), toMinutes(shown[i].to)>> : i \in 1..Len(shown)}

\* C16, as claimed: in that store suggestSlots("01-01-2030") never offers
\* 08:30-09:30 or 09:00-10:00 but does offer 10:30-11:30, and at most 5
\* results.
C16_ScenarioOffersHalfPastTen ==
    ScenarioSuggest =>
        /\ <<510, 570>> \notin WindowsShown
        /\ <<540, 600>> \notin WindowsShown
        /\ <<630, 690>> \in WindowsShown
        /\ Len(shown) <= 5

\* C16, amended: in that store suggestSlots("01-01-2030") offers exactly
\* 08:00-09:00, 11:00-12:00, 11:30-12:30, 12:00-13:00 and 12:30-13:30, in
\* that order: no window from 08:30 to 10:30, each of which overlaps an event.
C16_ScenarioOffersFromEleven ==
    ScenarioSuggest =>
        [i \in 1..Len(shown) |-> <<toMinutes(shown[i].from), toMinutes(shown[i].to)>>]
            = <<<<480, 540>>, <<660, 720>>, <<690, 750>>, <<720, 780>>, <<750, 810>>>>

\* The scenario's store, reached through an add rejected at 09:30 (the ids
\* are 1 and 3), with five slots listed.
C16_Witness ==
    /\ ScenarioSuggest
    /\ events[1].id = 1
    /\ events[2].id = 3
    /\ Len(shown) = 5

\* The n-th comma-separated field of a line, empty when the line has none
Field(line, n) == IF Len(Split(line)) >= n THEN Split(line)[n] ELSE <<>>
\* The number an id field holds, 0 when it is missing or not a number
IdOf(f) == IF f = <<>> \/ stoi(f).threw THEN 0 ELSE stoi(f).val
\* The pasted lines as rows, and those of them that have a non-zero id, a
\* non-empty name, a valid date and a valid time, in input order
RowOf(line) ==
    Event(IdOf(Field(line, 1)), Field(line, 2), Field(line, 3), Field(line, 4),
          Field(line, 5), Field(line, 6))
ValidRows(lines) ==
    SelectSeq([k \in 1..Len(lines) |-> RowOf(lines[k])],
              LAMBDA e : /\ e.id # 0
                         /\ e.name # <<>>
                         /\ isValidDate(e.date)
                         /\ isValidTime(e.time))
MaxIdOf(evs) == CHOOSE m \in IdsOf(evs) : \A n \in IdsOf(evs) : n <= m

\* C17: importSnapshotCSV keeps exactly the rows with a non-zero id, a
\* non-empty name, a valid date and a valid time, in input order; if a row is
\* kept the store becomes the kept rows and the id counter max(kept ids) + 1,
\* otherwise the events and the id counter are left untouched.
C17_ImportKeepsValidRows ==
    [][\A lines \in Pastes :
          importSnapshotCSV(lines) =>
             \A kept \in {ValidRows(lines)} :
                IF kept # <<>>
                THEN events' = kept /\ nextId' = MaxIdOf(kept) + 1
                ELSE events' = events /\ nextId' = nextId]_vars

\* C18: no import input is fatal: whatever is pasted, the operation completes
\* with a reported outcome and the process goes on.
C18_ImportNeverFatal == ~terminated

\* A date as the number yyyymmdd
DateNumber(d) ==
    DecimalValue(SubSeq(d, 7, 10)) * 10000 + DecimalValue(SubSeq(d, 4, 5)) * 100
        + DecimalValue(SubSeq(d, 1, 2))
\* a is not later than b: an earlier day, or the same day and no later time
NotLater(a, b) ==
    \/ DateNumber(a.date) < DateNumber(b.date)
    \/ /\ DateNumber(a.date) = DateNumber(b.date)
       /\ toMinutes(a.time) <= toMinutes(b.time)

\* C20: listAll outputs every live event exactly once, ordered by ascending
\* (year, month, day) and, within one date, by ascending start time, whatever
\* the day-month-year string order and the insertion order are.
C20_ListAllChronological ==
    op = "listAll" =>
        /\ \E p \in Perms(Len(events)) :
               shown = [i \in 1..Len(events) |-> events[p[i]]]
        /\ \A i, j \in 1..Len(shown) : i < j => NotLater(shown[i], shown[j])

\* 01-02-2030 was added before 02-01-2030 and is the smaller string; the
\* listing shows 02-01-2030, the earlier day, first.
C20_Witness ==
    /\ op = "listAll"
    /\ Len(events) = 2
    /\ events[1].date = Date_01_02_2030
    /\ events[2].date = Date_02_01_2030
    /\ shown = <<events[2], events[1]>>

\* C19: for any non-empty store reached by add, edit and delete calls,
\* importing the lines exportSnapshotCSV printed for it restores the same live
\* events (ids, field values, order), whatever was done to the store in
\* between.
C19_SnapshotRoundTrip ==
    [][(/\ op' = "importSnapshotCSV"
        /\ ~imported
        /\ snapshot.store # <<>>)
          => events' = snapshot.store]_vars

\* The minutes after midnight a valid time HH:MM names
MinutesOf(t) == DecimalValue(SubSeq(t, 1, 2)) * 60 + DecimalValue(SubSeq(t, 4, 5))

\* C22: conflicts(a,b) equals conflicts(b,a), and it is true exactly when the
\* dates are equal and the start times differ by less than 60 minutes: an
\* event conflicts with itself, events on different dates never conflict.
C22_ConflictsSymmetric ==
    op = "conflicts" =>
        /\ ret = conflicts(call.b, call.a)
        /\ ret <=> (/\ call.a.date = call.b.date
                    /\ MinutesOf(call.a.time) - MinutesOf(call.b.time) < 60
                    /\ MinutesOf(call.b.time) - MinutesOf(call.a.time) < 60)

\* 23:30 on one day and 00:00 on the next, half an hour apart across
\* midnight, were found not to conflict.
C22_Witness ==
    /\ op = "conflicts"
    /\ ret = FALSE
    /\ call.a = [date |-> Date_01_01_2030, time |-> Time_23_30]
    /\ call.b = [date |-> Date_02_01_2030, time |-> Time_00_00]

\* C23: for every valid time t, fromMinutes(toMinutes(t)) = t and toMinutes(t)
\* lies in [0, 1440); for every integer m, fromMinutes(m) is the time
\* max(m, 0) mod 1440 minutes after midnight.
C23_MinutesRoundTrip ==
    /\ (op = "toMinutes" /\ isValidTime(call.t)) =>
          /\ shown.back = call.t
          /\ shown.minutes >= 0
          /\ shown.minutes < 1440
    /\ op = "fromMinutes" =>
          /\ isValidTime(shown)
          /\ MinutesOf(shown) = (IF call.m < 0 THEN 0 ELSE call.m) % 1440

\* 23:59 was turned into 1439 minutes and back into 23:59.
C23_Witness ==
    /\ op = "toMinutes"
    /\ call.t = Time_23_59
    /\ shown = [minutes |-> 1439, back |-> Time_23_59]

\* The days of a month: February has 29 exactly in years divisible by 4 and
\* not by 100 unless by 400
DaysInMonth(mon, yr) ==
    IF mon \in {4, 6, 9, 11} THEN 30
    ELSE IF mon # 2 THEN 31
    ELSE IF yr % 4 = 0 /\ (yr % 100 # 0 \/ yr % 400 = 0) THEN 29
    ELSE 28

\* C24: for every well-formed DD-MM-YYYY string, isValidDate accepts iff the
\* year is in [1900, 3000], the month in [1, 12] and the day between 1 and the
\* days of that month in that year; it returns false on any malformed input.
C24_IsValidDate ==
    op = "isValidDate" =>
        IF call.wellFormed
        THEN ret <=> (/\ call.yr >= 1900 /\ call.yr <= 3000
                      /\ call.mon >= 1 /\ call.mon <= 12
                      /\ call.day >= 1
                      /\ call.day <= DaysInMonth(call.mon, call.yr))
        ELSE ret = FALSE

\* 29-02-2000 was accepted: 2000 is divisible by 400.
C24_Witness ==
    /\ op = "isValidDate"
    /\ call.d = <<"2", "9", "-", "0", "2", "-", "2", "0", "0", "0">>
    /\ ret = TRUE

\* C25: after a successful importSnapshotCSV no two live events share
\* (case-insensitive name, date, time) and no two live events on the same
\* date start less than 60 minutes apart, whatever was pasted.
C25_ImportKeepsRules ==
    (op = "importSnapshotCSV" /\ ret = TRUE) =>
        \A i, j \in 1..Len(events) :
            (i # j /\ events[i].date = events[j].date) =>
                /\ ~LessThanHourApart(events[i], events[j])
                /\ ~(/\ toLower(events[i].name) = toLower(events[j].name)
                     /\ events[i].time = events[j].time)

\* What the first check of an edit that fails reports, "Event updated." if
\* none fails: i is the position of the event edited (0 if none has the id)
\* and e what it becomes; the last two checks look at the other events only
FirstEditFailure(i, e) ==
    IF i = 0 THEN "Event not found."
    ELSE IF ~isValidDate(e.date) \/ ~isValidTime(e.time)
    THEN "Invalid date/time. Reverting."
    ELSE IF \E k \in 1..Len(events) :
                /\ k # i
                /\ toLower(events[k].name) = toLower(e.name)
                /\ events[k].date = e.date
                /\ events[k].time = e.time
    THEN "Duplicate after edit. Reverting."
    ELSE IF \E k \in 1..Len(events) :
                k # i /\ events[k].date = e.date /\ LessThanHourApart(events[k], e)
    THEN "Conflict after edit. Reverting."
    ELSE "Event updated."

\* C26: editEventById applies its checks in the order not-found, date/time
\* validity after the merge, duplicate, conflict, the last two against the
\* other live events only; so in a store reached by add, edit and delete an
\* edit of a live event that leaves name, date and time as they are succeeds.
C26_EditCheckOrder ==
    [][op' = "editEventById" =>
          LET i == find_if(events, call'.id)
              in == call'.in
              e == IF i = 0 THEN in
                   ELSE [name |-> Supplied(in.name, events[i].name),
                         date |-> Supplied(in.date, events[i].date),
                         time |-> Supplied(in.time, events[i].time)]
          IN /\ status' = FirstEditFailure(i, e)
             /\ ret' = (status' = "Event updated.")
             /\ (/\ i # 0
                 /\ e.name = events[i].name
                 /\ e.date = events[i].date
                 /\ e.time = events[i].time) => ret' = TRUE]_vars

\* An edit that supplied only a location succeeded on the first of two
\* events.
C26_Witness ==
    /\ op = "editEventById"
    /\ ret = TRUE
    /\ Len(events) = 2
    /\ call.id = events[1].id
    /\ call.in = [NoInput EXCEPT !.location = Str_T]
    /\ events[1].location = Str_T

\* C28: the id counter is greater than the id of every live event in every
\* reachable state, so a successful addEvent never assigns an id that a live
\* event has.
C28_NextIdAboveLiveIds == \A i \in 1..Len(events) : events[i].id < nextId

\* C27: every slot suggested by an operation rejected for conflict is
\* usable: retrying the rejected addEvent with the same date and a suggested
\* start time succeeds, and so does retrying the rejected edit with the same
\* new date and a suggested start time, when nothing is done in between.
C27_SuggestedSlotsUsable ==
    [][call'.retry => ret' = TRUE]_vars

\* An edit rejected for conflict was retried at a suggested start time and
\* succeeded, with two events live.
C27_Witness ==
    /\ op = "editEventById"
    /\ call # <<>>
    /\ call.retry
    /\ ret = TRUE
    /\ Len(events) = 2

LinesOn(date) ==
    LET on == SelectSeq(events, LAMBDA e : e.date = date)
    IN [i \in 1..Len(on) |->
           [time |-> on[i].time, name |-> on[i].name, type |-> on[i].type,
            location |-> IF on[i].location = <<>> THEN <<"T", "B", "A">>
                         ELSE on[i].location]]
SameLines(a, b) ==
    /\ Len(a) = Len(b)
    /\ \E p \in Perms(Len(a)) : \A i \in 1..Len(a) : a[i] = b[p[i]]

\* C21: sendReminderForDate(date) writes a message out if and only if some
\* live event has that date and some recipient is loaded; its body then has
\* one line per event of the date, in ascending order of time, with "TBA"
\* where the location is empty.  With no event on the date that is what is
\* reported, recipients or not.  The store is never changed.
C21_SendReminder ==
    [][op' = "sendReminderForDate" =>
          \A lines \in {LinesOn(call'.date)} :
             /\ ret' = (Len(lines) > 0 /\ Len(attendeeEmails) > 0)
             /\ ret' => /\ SameLines(shown', lines)
                        /\ \A i, j \in 1..Len(shown') :
                              i < j => MinutesOf(shown'[i].time)
                                          <= MinutesOf(shown'[j].time)
             /\ Len(lines) = 0 => status' = "No events on this date."
             /\ UNCHANGED <<events, nextId, attendeeEmails>>]_vars

\* A reminder went out for a date with two events, stored later one first,
\* one of them with no location.
C21_Witness ==
    /\ op = "sendReminderForDate"
    /\ ret = TRUE
    /\ Len(shown) = 2
    /\ Len(events) = 2
    /\ MinutesOf(events[2].time) < MinutesOf(events[1].time)
    /\ \E i \in 1..2 : shown[i].location = <<"T", "B", "A">>

AdminOnly ==
    {"addEvent", "editEventById", "deleteById", "deleteByName",
     "loadAttendeesFromPaste", "sendReminderForDate", "statistics",
     "exportSnapshotCSV", "importSnapshotCSV"}

\* C29: the admin flag becomes true only through a login with the accepted
\* credentials at startup and never changes afterwards; in a session where
\* it is false no menu choice calls add, edit, delete, attendee loading,
\* reminder sending, statistics, export or import, and the store stays
\* empty for the whole run.
C29_AdminGating ==
    [][/\ isAdmin' # isAdmin =>
            /\ pc = "start"
            /\ isAdmin'
            /\ call'.ans \in {"y", "Y"}
            /\ call'.user \in {"admin", "ACMadmin"}
            /\ call'.pass = "admin123"
       /\ ~isAdmin' =>
            /\ op' \notin AdminOnly
            /\ events' = <<>>
            /\ attendeeEmails' = <<>>]_vars

\* A viewer chose "Add event" from the menu and was refused.
C29_Witness ==
    /\ pc = "menu"
    /\ ~isAdmin
    /\ op = "main"
    /\ call = [choice |-> "5"]
    /\ status = "Invalid choice."

====
